---- MODULE Spec2Model ----
(***************************************************************************)
(* Model of validate_images (a1_ex2.py): a directory tree of candidate     *)
(* files is walked in sorted order, each file is checked against the six   *)
(* rules, accepted files are copied under a sequential name and labelled   *)
(* in labels.csv, rejected files are written to the log file.              *)
(***************************************************************************)
EXTENDS Integers, Sequences, FiniteSets, TLC

(* ----------------------------- bounds ---------------------------------- *)

\* largest number of files the input tree holds in one run
MaxFiles == 4

(* ------------------------- program constants --------------------------- *)

MaxFileSize == 250000
MinDim == 100
DefaultWidth == 7

(* --------------------------- characters -------------------------------- *)

\* the characters that occur in paths, in ASCII order
Ascii ==
  << ".", "/", "0", "1", "2", "3", "4", "5", "6", "7", "8", "9",
     "A", "B", "C", "D", "E", "F", "G", "H", "I", "J", "K", "L", "M",
     "N", "O", "P", "Q", "R", "S", "T", "U", "V", "W", "X", "Y", "Z",
     "a", "b", "c", "d", "e", "f", "g", "h", "i", "j", "k", "l", "m",
     "n", "o", "p", "q", "r", "s", "t", "u", "v", "w", "x", "y", "z" >>

Ord(c) == CHOOSE i \in 1..Len(Ascii) : Ascii[i] = c

IsUpper(c) == Ord(c) >= Ord("A") /\ Ord(c) <= Ord("Z")

IsLower(c) == Ord(c) >= Ord("a") /\ Ord(c) <= Ord("z")

\* str.isalpha on one character
IsAlpha(c) == IsUpper(c) \/ IsLower(c)

LowerChar(c) == IF IsUpper(c) THEN Ascii[Ord(c) + (Ord("a") - Ord("A"))] ELSE c

\* str.lower
Lower(s) == [i \in 1..Len(s) |-> LowerChar(s[i])]

\* str.endswith with one suffix
EndsWith(s, suf) ==
  /\ Len(s) >= Len(suf)
  /\ SubSeq(s, Len(s) - Len(suf) + 1, Len(s)) = suf

\* file.split(".")[0]: the part before the first dot
Stem(s) ==
  IF \E i \in 1..Len(s) : s[i] = "."
  THEN LET k == CHOOSE i \in 1..Len(s) :
                  s[i] = "." /\ \A j \in 1..(i - 1) : s[j] # "."
       IN SubSeq(s, 1, k - 1)
  ELSE s

\* the label of a file name: the letters of the stem, lowercased
Label(name) == Lower(SelectSeq(Stem(name), IsAlpha))

\* lexicographic order on strings, as Python compares str
RECURSIVE StrLess(_, _)
StrLess(a, b) ==
  IF a = <<>> THEN b # <<>>
  ELSE IF b = <<>> THEN FALSE
  ELSE IF Head(a) # Head(b) THEN Ord(Head(a)) < Ord(Head(b))
  ELSE StrLess(Tail(a), Tail(b))

(* --------------------------- number format ----------------------------- *)

DigitChars == << "0", "1", "2", "3", "4", "5", "6", "7", "8", "9" >>

\* str(n) for n >= 0
RECURSIVE Decimal(_)
Decimal(n) ==
  IF n < 10 THEN << DigitChars[n + 1] >>
  ELSE Decimal(n \div 10) \o << DigitChars[(n % 10) + 1] >>

RECURSIVE Zeros(_)
Zeros(k) == IF k <= 0 THEN <<>> ELSE << "0" >> \o Zeros(k - 1)

\* format(n, "0<width>d"): zero padded to at least width digits
Format(n, width) == Zeros(width - Len(Decimal(n))) \o Decimal(n)

JpgExt == << ".", "j", "p", "g" >>

JpegExt == << ".", "j", "p", "e", "g" >>

\* a numbering that starts at 1
OffByOneFilename(n, width) == Format(n + 1, width) \o JpgExt

\* f"{format(valid_images_count, formatter)}.jpg"
OutputFilename(n, width) == Format(n, width) \o JpgExt

(* ----------------------------- the files ------------------------------- *)

InputRoot == << "i", "n" >>

SubDir == << "s", "u", "b" >>

ColourA == << <<1, 2, 3>>, <<3, 2, 1>> >>
ColourB == << <<0, 1, 2>>, <<2, 2, 2>> >>
ColourBlank == << <<2, 2, 2>>, <<2, 2, 2>> >>
GreyA == << 1, 2, 3, 3, 2, 1 >>
GreyB == << 0, 3 >>
GreyBlank == << 0, 0 >>

File(dir, name, size, readable, mode, width, height, pixels) ==
  [dir |-> dir, name |-> name, size |-> size, readable |-> readable,
   mode |-> mode, width |-> width, height |-> height, pixels |-> pixels]

\* the candidate files an input tree is drawn from
Files ==
  << File(<<>>, << "c", "a", "t", "1", ".", "j", "p", "g" >>,
          1000, TRUE, "RGB", 120, 120, ColourA),
     File(<<>>, << "C", "a", "t", "2", ".", "J", "P", "G" >>,
          1000, TRUE, "RGB", 120, 120, ColourA),
     File(SubDir, << "c", "a", "t", "1", ".", "j", "p", "g" >>,
          1000, TRUE, "RGB", 120, 120, ColourA),
     File(<<>>, << "o", "w", "l", ".", "j", "p", "e", "g" >>,
          2000, TRUE, "L", 360, 120, GreyA),
     File(<<>>, << "d", "o", "g", ".", "j", "p", "e", "g" >>,
          MaxFileSize, TRUE, "L", MinDim, MinDim, GreyB),
     File(<<>>, << "b", "e", "e", ".", "j", "p", "g" >>,
          500, TRUE, "L", 50, 200, GreyB),
     File(<<>>, << "a", "n", "t", ".", "p", "n", "g" >>,
          MaxFileSize + 1, TRUE, "RGB", 120, 120, ColourB),
     File(<<>>, << "b", "i", "g", ".", "j", "p", "g" >>,
          MaxFileSize + 1, TRUE, "RGBA", 50, 50, << <<2, 2, 2, 0>> >>),
     File(<<>>, << "f", "o", "g", ".", "j", "p", "g" >>,
          3000, TRUE, "P", 50, 50, GreyBlank),
     File(<<>>, << "i", "n", "k", ".", "j", "p", "g" >>,
          3000, TRUE, "RGB", 120, 99, ColourBlank),
     File(<<>>, << "j", "e", "t", ".", "j", "p", "g" >>,
          3000, TRUE, "L", 200, 200, GreyBlank),
     File(<<>>, << "1", "2", ".", "j", "p", "g" >>,
          3000, TRUE, "RGB", 200, 200, ColourB),
     File(<<>>, << "b", "a", "d", ".", "j", "p", "g" >>,
          3000, FALSE, "RGB", 0, 0, <<>>),
     File(SubDir, << "b", "a", "d", "2", ".", "t", "x", "t" >>,
          3000, FALSE, "RGB", 0, 0, <<>>) >>

FileIds == 1..Len(Files)

\* os.path.join(root, file)
FilePath(f) ==
  IF Files[f].dir = <<>>
  THEN InputRoot \o << "/" >> \o Files[f].name
  ELSE InputRoot \o << "/" >> \o Files[f].dir \o << "/" >> \o Files[f].name

\* os.path.relpath(file_path, start=input_dir)
RelPath(f) ==
  IF Files[f].dir = <<>>
  THEN Files[f].name
  ELSE Files[f].dir \o << "/" >> \o Files[f].name

\* files.sort(key=abspath) over the files of one directory
RECURSIVE SortFiles(_)
SortFiles(S) ==
  IF S = {} THEN <<>>
  ELSE LET m == CHOOSE x \in S :
                  \A y \in S \ {x} : StrLess(FilePath(x), FilePath(y))
       IN << m >> \o SortFiles(S \ {m})

\* os.walk(input_dir), top down: the files of the root, then of the
\* sub-directory, each directory's files sorted
Walk(tree) ==
  SortFiles({f \in tree : Files[f].dir = <<>>})
    \o SortFiles({f \in tree : Files[f].dir # <<>>})

(* ----------------------------- the image ------------------------------- *)

RECURSIVE Flatten(_)
Flatten(ps) == IF ps = <<>> THEN <<>> ELSE Head(ps) \o Flatten(Tail(ps))

\* img.tobytes(): the bytes of the pixel buffer, channel after channel
ToBytes(f) ==
  IF Files[f].mode \in {"L", "P"} THEN Files[f].pixels
  ELSE Flatten(Files[f].pixels)

\* hashlib.sha256(...).hexdigest(), taken as free of collisions: the
\* digest is the number the bytes spell in base HashBase
HashBase == 5

RECURSIVE Sha256(_)
Sha256(bytes) ==
  IF bytes = <<>> THEN 1
  ELSE Sha256(SubSeq(bytes, 1, Len(bytes) - 1)) * HashBase
         + bytes[Len(bytes)] + 1

ImgHash(f) == Sha256(ToBytes(f))

\* len(set(pixels)) == 1
OneColour(f) ==
  Cardinality({Files[f].pixels[i] : i \in 1..Len(Files[f].pixels)}) = 1

(* ----------------------------- the rules ------------------------------- *)

Passed == [exc |-> "none", arg |-> 0]

ValueError(k) == [exc |-> "ValueError", arg |-> k]

\* what Image.open raises on a file it cannot identify
OSError == [exc |-> "OSError", arg |-> 0]

\* the rule checks with the variance check before the dimension check
EvaluateSwapped(f, seen) ==
  IF ~(EndsWith(Lower(Files[f].name), JpgExt)
       \/ EndsWith(Lower(Files[f].name), JpegExt)) THEN ValueError(1)
  ELSE IF Files[f].size > MaxFileSize THEN ValueError(2)
  ELSE IF ~Files[f].readable THEN OSError
  ELSE IF Files[f].mode \notin {"RGB", "L"} THEN ValueError(3)
  ELSE IF OneColour(f) THEN ValueError(5)
  ELSE IF Files[f].width < MinDim \/ Files[f].height < MinDim
       THEN ValueError(4)
  ELSE IF ImgHash(f) \in seen THEN ValueError(6)
  ELSE Passed

\* the rule checks without the duplicate check
EvaluateNoDup(f, seen) ==
  IF ~(EndsWith(Lower(Files[f].name), JpgExt)
       \/ EndsWith(Lower(Files[f].name), JpegExt)) THEN ValueError(1)
  ELSE IF Files[f].size > MaxFileSize THEN ValueError(2)
  ELSE IF ~Files[f].readable THEN OSError
  ELSE IF Files[f].mode \notin {"RGB", "L"} THEN ValueError(3)
  ELSE IF Files[f].width < MinDim \/ Files[f].height < MinDim
       THEN ValueError(4)
  ELSE IF OneColour(f) THEN ValueError(5)
  ELSE Passed

\* the body of the try block up to rule 6: the exception the file raises,
\* or Passed
Evaluate(f, seen) ==
  IF ~(EndsWith(Lower(Files[f].name), JpgExt)
       \/ EndsWith(Lower(Files[f].name), JpegExt)) THEN ValueError(1)
  ELSE IF Files[f].size > MaxFileSize THEN ValueError(2)
  ELSE IF ~Files[f].readable THEN OSError
  ELSE IF Files[f].mode \notin {"RGB", "L"} THEN ValueError(3)
  ELSE IF Files[f].width < MinDim \/ Files[f].height < MinDim
       THEN ValueError(4)
  ELSE IF OneColour(f) THEN ValueError(5)
  ELSE IF ImgHash(f) \in seen THEN ValueError(6)
  ELSE Passed

\* a set that records the hash of every image of an allowed mode
AddEarly(seen, f, verdict) ==
  IF verdict.exc = "none"
     \/ (verdict.exc = "ValueError" /\ verdict.arg \in {4, 5})
  THEN seen \cup {ImgHash(f)} ELSE seen

\* a set that is never added to
AddNever(seen, f, verdict) == seen

\* hashed_images after the try block: the hash is added once rule 6 passed
AddHash(seen, f, verdict) ==
  IF verdict.exc = "none" THEN seen \cup {ImgHash(f)} ELSE seen

(* ---------------------------- the artifacts ---------------------------- *)

Header == << "name", "label" >>

\* a copy that leaves an existing file of that name in place
CopyKeep(dir, name, f) ==
  IF \E d \in dir : d.name = name THEN dir
  ELSE dir \cup {[name |-> name, src |-> f]}

\* shutil.copy(file_path, output_path): creates or overwrites
Copy(dir, name, f) ==
  {d \in dir : d.name # name} \cup {[name |-> name, src |-> f]}

\* a writer that drops the rows with an empty label
WriteRowNoEmpty(csv, name, label) ==
  IF label = <<>> THEN csv ELSE Append(csv, << name, label >>)

\* writer.writerow({"name": output_filename, "label": label})
WriteRow(csv, name, label) == Append(csv, << name, label >>)

\* the rule number as its name
ReasonName(k) ==
  << "invalid extension", "file too large",
     "invalid image mode / unreadable", "image too small",
     "zero variance (blank image)", "duplicate image" >>[k]

\* a log line that carries the name of the rule
LogLineNamed(f, k) == [path |-> RelPath(f), reason |-> ReasonName(k)]

\* f"{rel_path},{e.args[0]}\n"
LogLine(f, k) == [path |-> RelPath(f), reason |-> DigitChars[k + 1]]

\* a check of the input directory that lets everything through
IsDirAlways(d) == TRUE

\* os.path.isdir(input_dir)
IsDir(d) == d = "dir"

(* ------------------------------ the state ------------------------------ *)

VARIABLES
  input_dir,          \* what input_dir names: "dir", "file" or "missing"
  tree,               \* the files below input_dir
  formatter,          \* the width of the "0<width>d" formatter
  outDirExists,       \* output_dir exists
  outFiles,           \* the image files of output_dir: name and source
  csvExists,          \* labels.csv exists
  labelsCsv,          \* the rows of labels.csv
  logExists,          \* log_file exists
  logFile,            \* the lines of log_file
  valid_images_count,
  hashed_images,
  todo,               \* the files the walk has still to yield
  pc,                 \* "start", "loop", "returned", "raised", "crashed"
  result              \* the value returned

vars ==
  << input_dir, tree, formatter, outDirExists, outFiles, csvExists, labelsCsv,
     logExists, logFile, valid_images_count, hashed_images, todo, pc, result >>

\* an image file, a labels.csv and a log file that an earlier run left
\* behind
StaleFiles == {[name |-> OutputFilename(0, DefaultWidth), src |-> 0]}

StaleLabels == << Header, << OutputFilename(0, DefaultWidth), << "o", "l", "d" >> >> >>

StaleLog == << [path |-> << "o", "l", "d" >>, reason |-> "1"] >>

Init ==
  /\ input_dir \in {"dir", "file", "missing"}
  /\ tree \in {S \in SUBSET FileIds : Cardinality(S) <= MaxFiles}
  /\ input_dir # "dir" => tree = {}
  /\ formatter \in {2, DefaultWidth}
  /\ \E o \in {[dir |-> FALSE, fs |-> {}, csv |-> <<>>, log |-> <<>>],
               [dir |-> TRUE, fs |-> {}, csv |-> <<>>, log |-> StaleLog],
               [dir |-> TRUE, fs |-> StaleFiles, csv |-> StaleLabels,
                log |-> StaleLog]} :
       /\ outDirExists = o.dir
       /\ outFiles = o.fs
       /\ csvExists = (o.csv # <<>>)
       /\ labelsCsv = o.csv
       /\ logExists = (o.log # <<>>)
       /\ logFile = o.log
  /\ valid_images_count = 0
  /\ hashed_images = {}
  /\ todo = <<>>
  /\ pc = "start"
  /\ result = 0

\* lines 13-14: input_dir is not an existing directory
RaiseInvalidInput ==
  /\ pc = "start"
  /\ ~IsDir(input_dir)
  /\ pc' = "raised"
  /\ UNCHANGED << input_dir, tree, formatter, outDirExists, outFiles,
                  csvExists, labelsCsv, logExists, logFile,
                  valid_images_count, hashed_images, todo, result >>

\* lines 16-35: create output_dir, reset the log file, write the header of
\* labels.csv and start the walk
Prepare ==
  /\ pc = "start"
  /\ IsDir(input_dir)
  /\ outDirExists' = TRUE
  /\ logExists' = TRUE
  /\ logFile' = <<>>
  /\ valid_images_count' = 0
  /\ hashed_images' = {}
  /\ csvExists' = TRUE
  /\ labelsCsv' = << Header >>
  /\ todo' = Walk(tree)
  /\ pc' = "loop"
  /\ UNCHANGED << input_dir, tree, formatter, outFiles, result >>

\* lines 37-85, no exception: the file passes the six rules, is copied and
\* labelled
AcceptFile ==
  /\ pc = "loop"
  /\ todo # <<>>
  /\ LET f == Head(todo)
         verdict == Evaluate(f, hashed_images)
         output_filename == OutputFilename(valid_images_count, formatter)
     IN /\ verdict.exc = "none"
        /\ hashed_images' = AddHash(hashed_images, f, verdict)
        /\ outFiles' = Copy(outFiles, output_filename, f)
        /\ labelsCsv' = WriteRow(labelsCsv, output_filename, Label(Files[f].name))
        /\ valid_images_count' = valid_images_count + 1
  /\ todo' = Tail(todo)
  /\ UNCHANGED << input_dir, tree, formatter, outDirExists, csvExists,
                  logExists, logFile, pc, result >>

\* lines 37-90, ValueError: the file fails a rule and is logged
RejectFile ==
  /\ pc = "loop"
  /\ todo # <<>>
  /\ LET f == Head(todo)
         verdict == Evaluate(f, hashed_images)
     IN /\ verdict.exc = "ValueError"
        /\ hashed_images' = AddHash(hashed_images, f, verdict)
        /\ logFile' = Append(logFile, LogLine(f, verdict.arg))
  /\ todo' = Tail(todo)
  /\ UNCHANGED << input_dir, tree, formatter, outDirExists, outFiles,
                  csvExists, labelsCsv, logExists, valid_images_count, pc,
                  result >>

\* lines 50 and 87: Image.open raises an OSError, which the except clause
\* does not catch; it leaves validate_images
AbortOnUnreadable ==
  /\ pc = "loop"
  /\ todo # <<>>
  /\ LET f == Head(todo)
         verdict == Evaluate(f, hashed_images)
     IN /\ verdict.exc = "OSError"
        /\ hashed_images' = AddHash(hashed_images, f, verdict)
  /\ todo' = Tail(todo)
  /\ pc' = "crashed"
  /\ UNCHANGED << input_dir, tree, formatter, outDirExists, outFiles,
                  csvExists, labelsCsv, logExists, logFile,
                  valid_images_count, result >>

\* line 92
Return ==
  /\ pc = "loop"
  /\ todo = <<>>
  /\ result' = valid_images_count
  /\ pc' = "returned"
  /\ UNCHANGED << input_dir, tree, formatter, outDirExists, outFiles,
                  csvExists, labelsCsv, logExists, logFile,
                  valid_images_count, hashed_images, todo >>

Next ==
  \/ RaiseInvalidInput
  \/ Prepare
  \/ AcceptFile
  \/ RejectFile
  \/ AbortOnUnreadable
  \/ Return

Spec == Init /\ [][Next]_vars

TypeOK ==
  /\ pc \in {"start", "loop", "returned", "raised", "crashed"}
  /\ valid_images_count \in 0..MaxFiles
  /\ hashed_images \subseteq {ImgHash(f) : f \in {g \in FileIds : Files[g].readable}}

(* ------------------------ notions of the claims ------------------------ *)

\* the run has passed the check of input_dir
Started == pc \in {"loop", "returned", "crashed"}

\* the files the walk has yielded so far, in processing order
Processed ==
  IF Started
  THEN SubSeq(Walk(tree), 1, Len(Walk(tree)) - Len(todo))
  ELSE <<>>

\* the image files this run wrote to output_dir
Written == {d \in outFiles : d.src # 0}

\* the data rows of labels.csv
DataRows == Len(labelsCsv) - 1

IsAccepted(f) == \E d \in Written : d.src = f

LogLinesOf(f) == {i \in 1..Len(logFile) : logFile[i].path = RelPath(f)}

IsLogged(f) == LogLinesOf(f) # {}

\* file f fails rule k of the specification, given the dedup index seen
FailsRule(f, k, seen) ==
  CASE k = 1 -> LET n == Lower(Files[f].name)
                IN ~(EndsWith(n, JpgExt) \/ EndsWith(n, JpegExt))
    [] k = 2 -> Files[f].size > MaxFileSize
    [] k = 3 -> ~Files[f].readable \/ Files[f].mode \notin {"RGB", "L"}
    [] k = 4 -> Files[f].readable
                /\ (Files[f].width < MinDim \/ Files[f].height < MinDim)
    [] k = 5 -> Files[f].readable /\ OneColour(f)
    [] k = 6 -> Files[f].readable /\ ImgHash(f) \in seen

\* the lowest rule f fails, 0 if it fails none
LowestFailing(f, seen) ==
  IF \E k \in 1..6 : FailsRule(f, k, seen)
  THEN CHOOSE k \in 1..6 :
         FailsRule(f, k, seen) /\ \A j \in 1..(k - 1) : ~FailsRule(f, j, seen)
  ELSE 0

PassesFive(f) == \A k \in 1..5 : ~FailsRule(f, k, {})

\* the file cannot be decoded and passes rules 1 and 2
Undecodable(f) ==
  ~Files[f].readable /\ ~FailsRule(f, 1, {}) /\ ~FailsRule(f, 2, {})

\* the step processes the head of todo and the run goes on without having
\* accepted it
RejectStep ==
  /\ pc = "loop" /\ todo # <<>>
  /\ todo' = Tail(todo) /\ pc' = "loop"
  /\ LowestFailing(Head(todo), hashed_images) # 0

RECURSIVE ParseDecimal(_)
ParseDecimal(ds) ==
  IF ds = <<>> THEN 0
  ELSE ParseDecimal(SubSeq(ds, 1, Len(ds) - 1)) * 10
         + (CHOOSE v \in 0..9 : DigitChars[v + 1] = ds[Len(ds)])

\* the digits of an output file name
NameDigits(name) == SubSeq(name, 1, Len(name) - Len(JpgExt))

\* the name is a zero padded decimal number followed by .jpg
WellFormedName(name) ==
  /\ EndsWith(name, JpgExt)
  /\ NameDigits(name) # <<>>
  /\ \A i \in 1..Len(NameDigits(name)) :
       \E v \in 0..9 : DigitChars[v + 1] = NameDigits(name)[i]
  /\ Len(NameDigits(name)) >= formatter
  /\ (Len(NameDigits(name)) > formatter => NameDigits(name)[1] # "0")

NameIndex(name) == ParseDecimal(NameDigits(name))

Artifacts ==
  << outDirExists, outFiles, csvExists, labelsCsv, logExists, logFile >>

(* ------------------------------ the claims ----------------------------- *)

\* C1: at every point of a run the accepted counter equals the number of
\* data rows of labels.csv and the number of image files written in the
\* run, and the returned value is that number
C1_CountRowsFilesAgree ==
  /\ Started =>
       /\ valid_images_count = DataRows
       /\ valid_images_count = Cardinality(Written)
  /\ pc = "returned" =>
       /\ result = DataRows
       /\ result = Cardinality(Written)

\* C1 witness: a returned run that accepted two files and rejected one
C1_Witness ==
  /\ pc = "returned"
  /\ result = 2
  /\ DataRows = 2
  /\ Len(logFile) >= 1

\* C2: the names written are the zero padded indices 0..count-1, each once,
\* and the Nth accepted file in processing order carries index N-1
C2_SequentialNames ==
  Started =>
    LET acc == SelectSeq(Processed, IsAccepted)
    IN /\ Len(acc) = valid_images_count
       /\ Cardinality(Written) = valid_images_count
       /\ \A d \in Written : WellFormedName(d.name)
       /\ {NameIndex(d.name) : d \in Written} = 0..(valid_images_count - 1)
       /\ \A d \in Written : acc[NameIndex(d.name) + 1] = d.src
       /\ \A i \in 1..valid_images_count :
            /\ WellFormedName(labelsCsv[i + 1][1])
            /\ NameIndex(labelsCsv[i + 1][1]) = i - 1

\* C2 witness: two accepted files with a rejected file processed between
\* them
C2_Witness ==
  /\ Started
  /\ \E i, j, k \in 1..Len(Processed) :
       /\ i < j /\ j < k
       /\ IsAccepted(Processed[i])
       /\ IsLogged(Processed[j])
       /\ IsAccepted(Processed[k])

\* C3: no two accepted files have the same content hash
C3_DistinctHashes ==
  Started =>
    \A d1, d2 \in Written :
      d1.src # d2.src => ImgHash(d1.src) # ImgHash(d2.src)

\* C3 witness: two files were accepted and one with the hash of an accepted
\* file was processed as well
C3_Witness ==
  /\ Started
  /\ Cardinality(Written) >= 2
  /\ \E i \in 1..Len(Processed) :
       /\ ~IsAccepted(Processed[i])
       /\ Files[Processed[i]].readable
       /\ \E d \in Written : ImgHash(d.src) = ImgHash(Processed[i])

\* C4: every file the walk has yielded is either accepted or logged once,
\* never both and never neither, so log lines plus accepted count is the
\* number of files scanned
C4_EveryFileAccounted ==
  Started =>
    /\ \A i \in 1..Len(Processed) :
         /\ IsAccepted(Processed[i]) \/ IsLogged(Processed[i])
         /\ ~(IsAccepted(Processed[i]) /\ IsLogged(Processed[i]))
         /\ Cardinality(LogLinesOf(Processed[i])) <= 1
    /\ Len(logFile) + valid_images_count = Len(Processed)

\* C5: a line that is logged for a file carries the lowest rule the file
\* fails: the file fails that rule and no rule before it
C5_FirstFailureWins ==
  [][(pc = "loop" /\ todo # <<>> /\ Len(logFile') = Len(logFile) + 1) =>
       \E k \in 1..6 :
         /\ logFile'[Len(logFile')].reason = DigitChars[k + 1]
         /\ FailsRule(Head(todo), k, hashed_images)
         /\ \A j \in 1..(k - 1) : ~FailsRule(Head(todo), j, hashed_images)]_vars

\* C5 witness: a file that fails two rules has been logged
C5_Witness ==
  /\ Started
  /\ \E i \in 1..Len(Processed) :
       /\ IsLogged(Processed[i])
       /\ Cardinality({k \in 1..5 : FailsRule(Processed[i], k, {})}) >= 2

\* C6: a file that passes rules 1 and 2 and cannot be decoded is logged
\* and the run goes on with the next file
C6_UndecodableIsRejected ==
  [][(pc = "loop" /\ todo # <<>> /\ Undecodable(Head(todo))) =>
       /\ pc' = "loop"
       /\ todo' = Tail(todo)
       /\ Len(logFile') = Len(logFile) + 1
       /\ logFile'[Len(logFile')].path = RelPath(Head(todo))]_vars

\* C7 as stated: the line logged for a rejected file carries the documented
\* name of the rule it failed
C7_ReasonIsText ==
  [][RejectStep =>
       logFile' = Append(logFile,
         [path |-> RelPath(Head(todo)),
          reason |-> ReasonName(LowestFailing(Head(todo), hashed_images))])]_vars

\* C7 amended: the line logged for a rejected file is its relative path and
\* the number of the rule it failed, and no output file is written
C7_ReasonIsNumber ==
  [][RejectStep =>
       /\ logFile' = Append(logFile,
            [path |-> RelPath(Head(todo)),
             reason |-> Decimal(LowestFailing(Head(todo), hashed_images))[1]])
       /\ outFiles' = outFiles]_vars

\* C7 witness: a file with the extension .png is logged with reason 1 and
\* nothing was written
C7_Witness ==
  /\ Started
  /\ Written = {}
  /\ \E i \in 1..Len(Processed) :
       /\ EndsWith(Files[Processed[i]].name, << ".", "p", "n", "g" >>)
       /\ \E l \in LogLinesOf(Processed[i]) : logFile[l].reason = "1"

\* C8: when input_dir is not a directory the call raises at once and
\* output_dir, the log file and labels.csv stay as they were
C8_InvalidInputTouchesNothing ==
  [][/\ (pc = "start" /\ input_dir # "dir") =>
          (pc' = "raised" /\ UNCHANGED Artifacts)
     /\ pc = "raised" => UNCHANGED Artifacts]_vars

\* C8 witness: the call raised where no output directory and no log file
\* existed
C8_Witness ==
  /\ pc = "raised"
  /\ ~outDirExists
  /\ ~csvExists
  /\ ~logExists

\* C9: a processed file that passes rules 1 to 5 is logged as a duplicate
\* exactly if an earlier file with its hash was accepted, and accepted
\* exactly if no earlier file that passes rules 1 to 5 has its hash
C9_FirstOfHashAccepted ==
  Started =>
    \A i \in 1..Len(Processed) :
      PassesFive(Processed[i]) =>
        LET f == Processed[i]
            dup == \E l \in LogLinesOf(f) : logFile[l].reason = "6"
            earlierAccepted ==
              \E j \in 1..(i - 1) :
                /\ IsAccepted(Processed[j])
                /\ ImgHash(Processed[j]) = ImgHash(f)
            earlierPassing ==
              \E j \in 1..(i - 1) :
                /\ PassesFive(Processed[j])
                /\ ImgHash(Processed[j]) = ImgHash(f)
        IN /\ dup <=> earlierAccepted
           /\ IsAccepted(f) <=> ~earlierPassing
           /\ IsAccepted(f) <=> ~dup

\* C9 witness: of three processed files with one hash, the first fails
\* rule 4, the second is accepted and the third is logged as a duplicate
C9_Witness ==
  /\ Started
  /\ \E i, j \in 1..Len(Processed) :
       /\ i < j
       /\ ImgHash(Processed[i]) = ImgHash(Processed[j])
       /\ IsAccepted(Processed[i])
       /\ \E l \in LogLinesOf(Processed[j]) : logFile[l].reason = "6"
  /\ \E i, j \in 1..Len(Processed) :
       /\ i < j
       /\ Files[Processed[i]].readable
       /\ ~PassesFive(Processed[i])
       /\ ImgHash(Processed[i]) = ImgHash(Processed[j])
       /\ IsAccepted(Processed[j])

\* C10: processing a file that is rejected adds one line to the log and
\* leaves the counter, the output files, labels.csv and the dedup index as
\* they were; no step removes a hash from the dedup index
C10_RejectionOnlyLogs ==
  [][/\ RejectStep =>
          /\ Len(logFile') = Len(logFile) + 1
          /\ SubSeq(logFile', 1, Len(logFile)) = logFile
          /\ UNCHANGED << valid_images_count, outFiles, labelsCsv,
                          hashed_images >>
     /\ hashed_images \subseteq hashed_images']_vars

\* C10 witness: a file was rejected by rule 4 or 5 while the dedup index
\* held a hash, and its own hash is not in the index
C10_Witness ==
  /\ Started
  /\ hashed_images # {}
  /\ \E i \in 1..Len(Processed) :
       /\ \E l \in LogLinesOf(Processed[i]) : logFile[l].reason \in {"4", "5"}
       /\ ImgHash(Processed[i]) \notin hashed_images

====
